---- MODULE Spec2Model ----
(***************************************************************************)
(* Line extraction and contextual-metadata resolution of the fr24432       *)
(* edition pipeline (helpers.extract_lines_from_xml and what it calls).    *)
(*                                                                         *)
(* A parsed fragment is a sequence of element records in document          *)
(* (preorder) order; an element is identified by its position, which       *)
(* stands for the identity of the ElementTree object.  Every element is in *)
(* the TEI namespace, so `tag' is the local name.  An absent attribute and *)
(* an empty one are both "" (the code only tests them with `or' and with   *)
(* get(..., '')).  Texts that the code inspects character by character     *)
(* (text, tail, who) are sequences of one-character strings.               *)
(*                                                                         *)
(* Further down: load_metadata, the batch driver of processor.py with      *)
(* helpers.process_div, and the index.  Each has its own specification     *)
(* over the same variables: Spec, SpecSpeaker and SpecText run the         *)
(* extractor, SpecMeta loads a metadata table, SpecBatch runs the driver.  *)
(* SpecWrite adds the writers, SpecRevise a change of the metadata between *)
(* two runs, SpecSeed the lookup of the seeds in the master document, and  *)
(* SpecPair the extractor of process_div.py next to that of helpers.py.    *)
(***************************************************************************)
EXTENDS Integers, Sequences, FiniteSets, TLC

VARIABLES
    xml,                 \* the parsed fragment (root = element 1)
    initial_folio,       \* seed folio
    initial_col,         \* seed column
    pc,                  \* position of the extractor and of what follows it
    div_elem,            \* first descendant div, 0 for None
    doc_nodes,           \* list(div_elem.iter()) or list(root.iter())
    parent_map,          \* child -> parent, for parents in doc_nodes
    todo,                \* what is left of root.findall(".//tei:l")
    line_counter,
    ancestor_group_map,  \* element key -> group number
    next_group_id,
    lines,               \* the records appended so far
    csv_file,            \* in/meta.csv
    master,              \* xml:id of the divs of in/fr24432.xml, in order
    xslt_fail,           \* <<id, edition>> whose cleaning transform fails
    preceding_pb_elem,   \* the pb found before the div in the master, 0 for None
    pd_lines,            \* the list process_div.py extracts from xml
    listdir_rev,         \* the order in which os.listdir gives directories
    fs,                  \* the tree under out/: path -> content
    bpc,                 \* position of the batch driver
    status,              \* exit status of the run, "" while it runs
    metadata_dict,
    divs,                \* the divs selected by the XPath expression
    position,            \* position in divs, or in the rows of csv_file
    written,             \* the paths written by the current run
    runs,                \* runs finished before the current one
    fs_first             \* the tree the first run left

extractVars ==
    <<xml, initial_folio, initial_col, pc, div_elem, doc_nodes, parent_map,
      todo, line_counter, ancestor_group_map, next_group_id, lines>>

batchVars ==
    <<csv_file, master, xslt_fail, preceding_pb_elem, pd_lines,
      listdir_rev, fs, bpc, status,
      metadata_dict, divs, position, written, runs, fs_first>>

vars == <<extractVars, batchVars>>

----------------------------------------------------------------------------
(* Bounds of the fragments that are explored.                              *)

\* Elements below the root.  At most half of them are lines and at most
\* half are containers, and every marker after the first takes the place
\* of two elements.
MaxNodes == 4

----------------------------------------------------------------------------
(* Elements.                                                               *)

Elem(tag, n, xmlid, unit, who, text) ==
    [tag |-> tag, n |-> n, xmlid |-> xmlid, id |-> "", unit |-> unit,
     who |-> who, text |-> text, tail |-> <<>>, parent |-> 0]

\* The root stands for whatever element wraps the fragment (TEI in the
\* pipeline, div in the scenario of the specification): find and findall
\* never return the root, and it is neither a marker nor a grouping tag.
RootElems ==
    { Elem("div", "", "", "", <<>>, <<>>) }

ContainerElems ==
    { Elem("div", "", "", "", <<>>, <<>>),
      Elem("lg", "", "", "", <<>>, <<>>),
      Elem("sp", "", "", "", <<"#", "a">>, <<>>) }

LineElems ==
    { Elem("l", "", "l1", "", <<>>, <<"F", "o", "o">>),
      Elem("l", "", "l2", "", <<>>, <<"B", "a", "r">>) }

MarkerElems ==
    { Elem("pb", "1r", "", "", <<>>, <<>>),
      Elem("pb", "", "2v", "", <<>>, <<>>),
      Elem("pb", "", "", "", <<>>, <<>>),
      Elem("cb", "a", "", "", <<>>, <<>>),
      Elem("cb", "", "", "", <<>>, <<>>),
      Elem("milestone", "b", "", "column", <<>>, <<>>),
      Elem("milestone", "c", "", "line", <<>>, <<>>) }

ContainerTags == {"div", "lg", "sp", "p"}

Seeds == { <<"", "">>, <<"9v", "z">> }

Range(s) == { s[i] : i \in DOMAIN s }

CountTag(d, tags) == Cardinality({ i \in 2..Len(d) : d[i].tag \in tags })

\* The open elements after the last element of d: those that can take the
\* next element of the document as a child.
RECURSIVE OpenPath(_, _)
OpenPath(d, i) ==
    IF i = 0 THEN {}
    ELSE (IF d[i].tag \in ContainerTags THEN {i} ELSE {}) \cup OpenPath(d, d[i].parent)

MarkerTags == {"pb", "cb", "milestone"}

WithinBounds(d) ==
    LET m == CountTag(d, MarkerTags)
    IN  /\ 2 * CountTag(d, {"l"}) <= MaxNodes
        /\ 2 * CountTag(d, {"div", "lg", "sp", "p"}) <= MaxNodes
        /\ (Len(d) - 1) + (IF m > 1 THEN m - 1 ELSE 0) <= MaxNodes

Extensions(d) ==
    { f \in { Append(d, [e EXCEPT !.parent = p]) :
               e \in ContainerElems \cup LineElems \cup MarkerElems,
               p \in OpenPath(d, Len(d)) } : WithinBounds(f) }

----------------------------------------------------------------------------
(* ElementTree traversal.                                                  *)

RECURSIVE ChildrenFrom(_, _, _)
ChildrenFrom(x, i, j) ==
    IF j > Len(x) THEN <<>>
    ELSE (IF x[j].parent = i THEN <<j>> ELSE <<>>) \o ChildrenFrom(x, i, j + 1)

Children(x, i) == ChildrenFrom(x, i, 1)

RECURSIVE Iter(_, _)
RECURSIVE IterAll(_, _)
Iter(x, i) == <<i>> \o IterAll(x, Children(x, i))
IterAll(x, cs) ==
    IF cs = <<>> THEN <<>> ELSE Iter(x, Head(cs)) \o IterAll(x, Tail(cs))

RECURSIVE SelectTag(_, _, _)
SelectTag(x, s, tag) ==
    IF s = <<>> THEN <<>>
    ELSE (IF x[Head(s)].tag = tag THEN <<Head(s)>> ELSE <<>>)
         \o SelectTag(x, Tail(s), tag)

\* root.findall(".//tei:<tag>"): the descendants of the root, not the root.
FindAll(x, tag) == SelectTag(x, Tail(Iter(x, 1)), tag)

\* root.find(".//tei:<tag>"), 0 for None
Find(x, tag) == IF FindAll(x, tag) = <<>> THEN 0 ELSE Head(FindAll(x, tag))

DocNodes(x, d) == IF d # 0 THEN Iter(x, d) ELSE Iter(x, 1)

\* LineList with the loop run over the node list only
LineListOfNodeList(x) == SelectTag(x, DocNodes(x, Find(x, "div")), "l")

\* The elements the for loop visits: root.findall(".//tei:l")
LineList(x) == FindAll(x, "l")

ParentMap(x, nodes) ==
    [c \in { c \in 1..Len(x) : x[c].parent \in Range(nodes) } |-> x[c].parent]

\* doc_nodes.index(l), 1-based; 0 stands for ValueError
RECURSIVE IndexFrom(_, _, _)
IndexFrom(s, e, k) ==
    IF k > Len(s) THEN 0
    ELSE IF s[k] = e THEN k ELSE IndexFrom(s, e, k + 1)

Index(s, e) == IndexFrom(s, e, 1)

----------------------------------------------------------------------------
(* Markup rendering and whitespace normalisation.                          *)

RECURSIVE get_text_with_markup(_, _)
RECURSIVE JoinMarkup(_, _)
get_text_with_markup(x, i) ==
    LET tag == x[i].tag
        inner == JoinMarkup(x, Children(x, i))
    IN  IF tag = "ex"
          THEN <<"<", "e", "m", ">">> \o x[i].text \o inner
               \o <<"<", "/", "e", "m", ">">> \o x[i].tail
        ELSE IF tag \in {"add", "supplied"}
          THEN <<"[">> \o x[i].text \o inner \o <<"]">> \o x[i].tail
        ELSE IF tag \in {"del", "surplus"}
          THEN <<"(">> \o x[i].text \o inner \o <<")">> \o x[i].tail
        ELSE IF tag = "gap"
          THEN <<" ", "[", ".", ".", ".", "]">> \o x[i].tail
        ELSE x[i].text \o inner \o x[i].tail
JoinFirstChild(x, cs) ==
    IF cs = <<>> THEN <<>> ELSE get_text_with_markup(x, Head(cs))

JoinMarkup(x, cs) ==
    IF cs = <<>> THEN <<>>
    ELSE get_text_with_markup(x, Head(cs)) \o JoinMarkup(x, Tail(cs))

Whitespace == {" ", "\t", "\n", "\r"}

\* re.sub(r"\s+", " ", t)
RECURSIVE CollapseSpace(_)
CollapseSpace(t) ==
    IF t = <<>> THEN <<>>
    ELSE IF Head(t) \in Whitespace
      THEN IF Len(t) > 1 /\ t[2] \in Whitespace
             THEN CollapseSpace(Tail(t))
             ELSE <<" ">> \o CollapseSpace(Tail(t))
      ELSE <<Head(t)>> \o CollapseSpace(Tail(t))

\* str.strip()
RECURSIVE LStrip(_)
LStrip(t) ==
    IF t # <<>> /\ Head(t) \in Whitespace THEN LStrip(Tail(t)) ELSE t

RECURSIVE RStrip(_)
RStrip(t) ==
    IF t # <<>> /\ t[Len(t)] \in Whitespace
      THEN RStrip(SubSeq(t, 1, Len(t) - 1)) ELSE t

Strip(t) == RStrip(LStrip(t))

CollapseOnly(t) == CollapseSpace(t)

NormalizeText(t) == Strip(CollapseSpace(t))

----------------------------------------------------------------------------
(* Context resolution.                                                     *)

GROUP_TAGS == {"lg", "p", "sp"}

\* Python's `a or b or c' on strings
Or3(a, b, c) == IF a # "" THEN a ELSE IF b # "" THEN b ELSE c

\* find_group_for_node: 0 for None
RECURSIVE find_group_for_node(_, _, _)
find_group_for_node(x, pm, cur) ==
    IF cur \in DOMAIN pm
      THEN IF x[pm[cur]].tag \in GROUP_TAGS THEN pm[cur]
           ELSE find_group_for_node(x, pm, pm[cur])
      ELSE 0

\* ElementKey with elements compared by tag
ElementKeyByTag(x, i) == x[i].tag

\* The key under which an Element is held in ancestor_group_map: Element
\* defines neither __eq__ nor __hash__, so it is the object itself.
ElementKey(x, i) == i

\* NextGroupId stepping over a number
NextGroupIdSkip(n) == n + 2

\* next_group_id += 1
NextGroupId(n) == n + 1

\* str(n) for n >= 0
Digit == <<"0", "1", "2", "3", "4", "5", "6", "7", "8", "9">>

RECURSIVE Str(_)
Str(n) == IF n < 10 THEN Digit[n + 1] ELSE Str(n \div 10) \o Digit[(n % 10) + 1]

\* LgId numbering the groups from zero
LgIdFromZero(lg_num) == IF lg_num > 0 THEN Str(lg_num - 1) ELSE ""

LgId(lg_num) == IF lg_num > 0 THEN Str(lg_num) ELSE ""

\* ScanPb without the reversal: the pb farthest from the line
RECURSIVE ScanPbForwardFrom(_, _, _, _)
ScanPbForwardFrom(x, nodes, j, k) ==
    IF j > k THEN 0
    ELSE IF x[nodes[j]].tag = "pb" THEN nodes[j]
    ELSE ScanPbForwardFrom(x, nodes, j + 1, k)

ScanPbForward(x, nodes, k) == ScanPbForwardFrom(x, nodes, 1, k)

\* for prev in reversed(doc_nodes[:idx]): the first pb met from position k
\* downwards, 0 when the scan is exhausted
RECURSIVE ScanPb(_, _, _)
ScanPb(x, nodes, k) ==
    IF k = 0 THEN 0
    ELSE IF x[nodes[k]].tag = "pb" THEN nodes[k]
    ELSE ScanPb(x, nodes, k - 1)

\* IsColumnMarker without the test of the unit
IsColumnMarkerAnyUnit(e) == e.tag \in {"cb", "milestone"}

IsColumnMarker(e) ==
    \/ e.tag = "cb"
    \/ e.tag = "milestone" /\ e.unit = "column"

RECURSIVE ScanCol(_, _, _)
ScanCol(x, nodes, k) ==
    IF k = 0 THEN 0
    ELSE IF IsColumnMarker(x[nodes[k]]) THEN nodes[k]
    ELSE ScanCol(x, nodes, k - 1)

RECURSIVE ScanSp(_, _, _)
ScanSp(x, nodes, k) ==
    IF k = 0 THEN 0
    ELSE IF x[nodes[k]].tag = "sp" THEN nodes[k]
    ELSE ScanSp(x, nodes, k - 1)

\* MarkerValue falling back to the empty string
MarkerValueNoSeed(e, seed) == Or3(e.n, e.xmlid, "")

\* The value a matched marker gives: n, else xml:id, else the seed.
MarkerValue(e, seed) == Or3(e.n, e.xmlid, seed)

\* FolioOf starting from the empty string instead of the seed
FolioOfNoSeed(x, nodes, l, seed) ==
    LET idx == Index(nodes, l)
        pb == IF idx = 0 THEN 0 ELSE ScanPb(x, nodes, idx - 1)
    IN  IF pb = 0 THEN "" ELSE MarkerValue(x[pb], seed)

FolioOf(x, nodes, l, seed) ==
    LET idx == Index(nodes, l)
        pb == IF idx = 0 THEN 0 ELSE ScanPb(x, nodes, idx - 1)
    IN  IF pb = 0 THEN seed ELSE MarkerValue(x[pb], seed)

ColOf(x, nodes, l, seed) ==
    LET idx == Index(nodes, l)
        m == IF idx = 0 THEN 0 ELSE ScanCol(x, nodes, idx - 1)
    IN  IF m = 0 THEN seed ELSE MarkerValue(x[m], seed)

RECURSIVE StripEverySigil(_)
StripEverySigil(w) ==
    IF w # <<>> /\ Head(w) = "#" THEN StripEverySigil(Tail(w)) ELSE w

\* speaker[1:] when speaker.startswith('#')
StripSigil(w) == IF w # <<>> /\ Head(w) = "#" THEN Tail(w) ELSE w

SpeakerOf(x, nodes, l) ==
    LET idx == Index(nodes, l)
        sp == IF idx = 0 THEN 0 ELSE ScanSp(x, nodes, idx - 1)
    IN  IF sp = 0 THEN <<>> ELSE StripSigil(x[sp].who)

----------------------------------------------------------------------------
(* extract_lines_from_xml as a state machine.                              *)

NoMap == [k \in {} |-> 0]

\* The batch driver has not been started.
BatchIdle ==
    /\ csv_file = [exists |-> FALSE, has_id |-> FALSE, rows |-> <<>>]
    /\ master = <<>>
    /\ xslt_fail = {}
    /\ preceding_pb_elem = 0
    /\ pd_lines = <<>>
    /\ listdir_rev = FALSE
    /\ fs = NoMap
    /\ bpc = "idle"
    /\ status = ""
    /\ metadata_dict = NoMap
    /\ divs = <<>>
    /\ position = 0
    /\ written = {}
    /\ runs = 0
    /\ fs_first = NoMap

Init ==
    /\ xml \in { <<r>> : r \in RootElems }
    /\ initial_folio = ""
    /\ initial_col = ""
    /\ pc = "input"
    /\ div_elem = 0
    /\ doc_nodes = <<>>
    /\ parent_map = NoMap
    /\ todo = <<>>
    /\ line_counter = 0
    /\ ancestor_group_map = NoMap
    /\ next_group_id = 0
    /\ lines = <<>>
    /\ BatchIdle

\* The fragment handed to the extractor, one element after the other in
\* document order.
Element ==
    /\ pc = "input"
    /\ xml' \in Extensions(xml)
    /\ UNCHANGED <<initial_folio, initial_col, pc, div_elem, doc_nodes,
                   parent_map, todo, line_counter, ancestor_group_map,
                   next_group_id, lines>>
    /\ UNCHANGED batchVars

\* The call with its seeds, from the parse to the head of the for loop.
Begin ==
    /\ pc = "input"
    /\ \E s \in Seeds : initial_folio' = s[1] /\ initial_col' = s[2]
    /\ div_elem' = Find(xml, "div")
    /\ doc_nodes' = DocNodes(xml, div_elem')
    /\ parent_map' = ParentMap(xml, doc_nodes')
    /\ ancestor_group_map' = NoMap
    /\ next_group_id' = 0
    /\ line_counter' = 0
    /\ lines' = <<>>
    /\ todo' = LineList(xml)
    /\ pc' = IF todo' = <<>> THEN "done" ELSE "loop"
    /\ UNCHANGED xml
    /\ UNCHANGED batchVars

\* One iteration of the for loop; after the last one the list is returned.
ExtractLine ==
    /\ pc = "loop"
    /\ todo # <<>>
    /\ LET l == Head(todo)
           text == NormalizeText(get_text_with_markup(xml, l))
           l_id == Or3(xml[l].xmlid, xml[l].id, "")
           ancestor == find_group_for_node(xml, parent_map, l)
           key == ElementKey(xml, ancestor)
           fresh == ancestor # 0 /\ key \notin DOMAIN ancestor_group_map
           new_next == IF fresh THEN NextGroupId(next_group_id) ELSE next_group_id
           new_map == IF fresh THEN ancestor_group_map @@ (key :> new_next)
                      ELSE ancestor_group_map
           lg_num == IF ancestor # 0 THEN new_map[key] ELSE 0
       IN  /\ line_counter' = line_counter + 1
           /\ next_group_id' = new_next
           /\ ancestor_group_map' = new_map
           /\ lines' = Append(lines,
                 [line_no |-> line_counter + 1,
                  text |-> text,
                  lg |-> LgId(lg_num),
                  l_id |-> l_id,
                  folio |-> FolioOf(xml, doc_nodes, l, initial_folio),
                  col |-> ColOf(xml, doc_nodes, l, initial_col),
                  speaker |-> SpeakerOf(xml, doc_nodes, l)])
    /\ todo' = Tail(todo)
    /\ pc' = IF todo' = <<>> THEN "done" ELSE "loop"
    /\ UNCHANGED <<xml, initial_folio, initial_col, div_elem, doc_nodes,
                   parent_map>>
    /\ UNCHANGED batchVars

Next == Element \/ Begin \/ ExtractLine

Spec == Init /\ [][Next]_vars

----------------------------------------------------------------------------
(* load_metadata.  A csv file is a record: whether it exists, whether its  *)
(* header has an id column, and its rows; a row has the columns the        *)
(* pipeline reads, each a sequence of characters.                          *)

\* Rows of the csv files of SpecMeta.
MaxRows == 3

UpperCase == <<"A", "B", "C", "D", "E", "F", "G", "H", "I", "J", "K", "L", "M",
               "N", "O", "P", "Q", "R", "S", "T", "U", "V", "W", "X", "Y", "Z">>

LowerCase == <<"a", "b", "c", "d", "e", "f", "g", "h", "i", "j", "k", "l", "m",
               "n", "o", "p", "q", "r", "s", "t", "u", "v", "w", "x", "y", "z">>

\* str.lower()
LowerChar(c) ==
    IF \E i \in DOMAIN UpperCase : UpperCase[i] = c
      THEN LowerCase[CHOOSE i \in DOMAIN UpperCase : UpperCase[i] = c]
      ELSE c

Lower(t) == [i \in 1..Len(t) |-> LowerChar(t[i])]

SComplete == <<"c", "o", "m", "p", "l", "e", "t", "e">>
SNearComplete == <<"n", "e", "a", "r", "-">> \o SComplete
SIncomplete == <<"i", "n">> \o SComplete

\* the state column as editors write it
StateTexts ==
    { <<"C">> \o Tail(SComplete),
      <<"N", "e", "a", "r", " ">> \o SComplete,
      SNearComplete,
      <<" ">> \o SIncomplete }

RowIds == { <<>>, <<" ">>, <<"A">>, <<" ", "b", " ">> }

MetaRows ==
    { [id |-> i, state |-> st, fol_range |-> <<"3">>] :
        i \in RowIds, st \in StateTexts }

\* metadata[div_id] = row
Put(f, k, v) == [j \in DOMAIN f \cup {k} |-> IF j = k THEN v ELSE f[j]]

\* LoadRow that forgets what it has loaded when the id is blank
LoadRowForgetting(metadata, row) ==
    IF Strip(row.id) # <<>>
      THEN Put(metadata, Strip(row.id),
               [row EXCEPT !.state = Lower(Strip(row.state))])
      ELSE NoMap

\* the body of the loop over the rows
LoadRow(metadata, row) ==
    IF Strip(row.id) # <<>>
      THEN Put(metadata, Strip(row.id),
               [row EXCEPT !.state = Lower(Strip(row.state))])
      ELSE metadata

ExtractIdle ==
    /\ xml = <<[Elem("div", "", "", "", <<>>, <<>>) EXCEPT !.parent = 0]>>
    /\ initial_folio = ""
    /\ initial_col = ""
    /\ pc = "idle"
    /\ div_elem = 0
    /\ doc_nodes = <<>>
    /\ parent_map = NoMap
    /\ todo = <<>>
    /\ line_counter = 0
    /\ ancestor_group_map = NoMap
    /\ next_group_id = 0
    /\ lines = <<>>

InitMeta ==
    /\ ExtractIdle
    /\ csv_file \in { [exists |-> FALSE, has_id |-> FALSE, rows |-> <<>>],
                       [exists |-> TRUE, has_id |-> FALSE, rows |-> <<>>],
                       [exists |-> TRUE, has_id |-> TRUE, rows |-> <<>>] }
    /\ master = <<>>
    /\ xslt_fail = {}
    /\ preceding_pb_elem = 0
    /\ pd_lines = <<>>
    /\ listdir_rev = FALSE
    /\ fs = NoMap
    /\ bpc = "csv"
    /\ status = ""
    /\ metadata_dict = NoMap
    /\ divs = <<>>
    /\ position = 0
    /\ written = {}
    /\ runs = 0
    /\ fs_first = NoMap

\* One more row of the csv file; the table has one row per identifier.
\* The rows of a file without an id column are never read.
CsvRow ==
    /\ bpc = "csv"
    /\ csv_file.has_id
    /\ Len(csv_file.rows) < MaxRows
    /\ \E r \in MetaRows :
         /\ \A q \in Range(csv_file.rows) :
              Strip(r.id) # <<>> => Strip(q.id) # Strip(r.id)
         /\ csv_file' = [csv_file EXCEPT !.rows = Append(@, r)]
    /\ UNCHANGED <<master, xslt_fail, preceding_pb_elem, pd_lines,
                   listdir_rev, fs, bpc, status,
                   metadata_dict, divs, position, written, runs, fs_first>>
    /\ UNCHANGED extractVars

\* load_metadata up to the loop over the rows.  sys is not imported in
\* helpers, so each sys.exit(1) raises NameError; the one in the try block
\* is caught by `except Exception', whose own sys.exit(1) raises it again.
\* The interpreter ends with a traceback and exit status 1.
OpenMetadata ==
    /\ bpc \in {"csv", "start"}
    /\ metadata_dict' = NoMap
    /\ IF csv_file.exists /\ csv_file.has_id
         THEN /\ position' = 1
              /\ bpc' = IF csv_file.rows = <<>> THEN "loaded" ELSE "rows"
              /\ status' = status
         ELSE /\ position' = 0
              /\ bpc' = "exited"
              /\ status' = "1"
    /\ UNCHANGED <<csv_file, master, xslt_fail, preceding_pb_elem, pd_lines,
                   listdir_rev, fs, divs,
                   written, runs, fs_first>>
    /\ UNCHANGED extractVars

\* One row; after the last one the dictionary is returned.
ReadRow ==
    /\ bpc = "rows"
    /\ position <= Len(csv_file.rows)
    /\ metadata_dict' = LoadRow(metadata_dict, csv_file.rows[position])
    /\ position' = position + 1
    /\ bpc' = IF position' > Len(csv_file.rows) THEN "loaded" ELSE "rows"
    /\ UNCHANGED <<csv_file, master, xslt_fail, preceding_pb_elem, pd_lines,
                   listdir_rev, fs, status,
                   divs, written, runs, fs_first>>
    /\ UNCHANGED extractVars

NextMeta == CsvRow \/ OpenMetadata \/ ReadRow

SpecMeta == InitMeta /\ [][NextMeta]_vars

----------------------------------------------------------------------------
(* The batch driver (processor.py) and helpers.process_div.  The tree      *)
(* under out/ maps a path to the chunks written to the file since it was   *)
(* last opened for writing.                                                *)

\* Runs of the batch driver in a row.
MaxRuns == 2

KeepSpace(t) == t

\* str.replace(' ', '-')
ReplaceSpace(t) == [i \in 1..Len(t) |-> IF t[i] = " " THEN "-" ELSE t[i]]

\* metadata_dict.get(id, {}).get('state', 'incomplete').lower()
StateOf(metadata, id) ==
    IF id \in DOMAIN metadata THEN Lower(metadata[id].state) ELSE SIncomplete

\* metadata_dict.get(id, {}).get('fol_range', '')
FolRangeOf(metadata, id) ==
    IF id \in DOMAIN metadata THEN metadata[id].fol_range ELSE <<>>

ALLOWED_HTML_STATES == {SComplete, SNearComplete}

Path(dir, state, edition, name) ==
    [dir |-> dir, state |-> state, edition |-> edition, name |-> name]

TeiPath(state, id) == Path("tei", state, "", id)
TxtPath(state, edition, id) == Path("txt", state, edition, id)
CsvPath(state, edition, id) == Path("csv", state, edition, id)
HtmlPath(edition, id) == Path("html", <<>>, edition, Lower(id))
IndexPath == Path("html", <<>>, "", <<"i", "n", "d", "e", "x">>)

\* What is written to a file: it is decided by the section, the edition,
\* the state and, for the index, the listing.
Chunk(kind, id, edition, state, listing) ==
    [kind |-> kind, id |-> id, edition |-> edition, state |-> state,
     listing |-> listing]

\* Write that opens the file with mode "a"
WriteAppending(tree, path, chunk) ==
    Put(tree, path,
        IF path \in DOMAIN tree THEN Append(tree[path], chunk) ELSE <<chunk>>)

\* open(path, "w") and write
Write(tree, path, chunk) == Put(tree, path, <<chunk>>)

----------------------------------------------------------------------------
(* The index: listing of out/tei, grouping and sorting.                    *)

Digits == <<"0", "1", "2", "3", "4", "5", "6", "7", "8", "9">>

IsDigit(c) == \E i \in DOMAIN Digits : Digits[i] = c

DigitValue(c) == (CHOOSE i \in DOMAIN Digits : Digits[i] = c) - 1

\* what re.match(r'(\d+)', t) captures: the digits t starts with
RECURSIVE LeadingDigits(_)
LeadingDigits(t) ==
    IF t # <<>> /\ IsDigit(Head(t))
      THEN <<Head(t)>> \o LeadingDigits(Tail(t)) ELSE <<>>

\* int()
RECURSIVE ToInt(_)
ToInt(ds) ==
    IF ds = <<>> THEN 0
    ELSE 10 * ToInt(SubSeq(ds, 1, Len(ds) - 1)) + DigitValue(ds[Len(ds)])

simple_folio_sort_key(fol_range) ==
    IF fol_range = <<>> THEN 999999
    ELSE IF LeadingDigits(fol_range) # <<>> THEN ToInt(LeadingDigits(fol_range))
    ELSE 999999

\* list.sort(key=...): stable, an item goes behind the items whose key is
\* not greater
RECURSIVE InsertByKey(_, _)
InsertByKey(sorted, item) ==
    IF sorted = <<>> THEN <<item>>
    ELSE IF simple_folio_sort_key(Head(sorted).fol_range)
              <= simple_folio_sort_key(item.fol_range)
      THEN <<Head(sorted)>> \o InsertByKey(Tail(sorted), item)
      ELSE <<item>> \o sorted

RECURSIVE SortByFolio(_)
SortByFolio(items) ==
    IF items = <<>> THEN <<>>
    ELSE InsertByKey(SortByFolio(SubSeq(items, 1, Len(items) - 1)),
                     items[Len(items)])

\* code points of the characters of file names
CodePoints == Digits \o UpperCase \o LowerCase

Ord(c) == CHOOSE i \in DOMAIN CodePoints : CodePoints[i] = c

\* a < b on strings
RECURSIVE StrLess(_, _)
StrLess(a, b) ==
    IF b = <<>> THEN FALSE
    ELSE IF a = <<>> THEN TRUE
    ELSE IF Head(a) = Head(b) THEN StrLess(Tail(a), Tail(b))
    ELSE Ord(Head(a)) < Ord(Head(b))

\* sorted(names)
RECURSIVE Sorted(_)
Sorted(names) ==
    IF names = {} THEN <<>>
    ELSE LET least == CHOOSE n \in names :
                        \A o \in names \ {n} : StrLess(n, o)
         IN  <<least>> \o Sorted(names \ {least})

\* os.listdir: the entries in an order of the file system's choosing, the
\* same whenever the directory is listed
RECURSIVE InSomeOrder(_)
InSomeOrder(names) ==
    IF names = {} THEN <<>>
    ELSE LET first == CHOOSE n \in names : TRUE
         IN  <<first>> \o InSomeOrder(names \ {first})

Reverse(q) == [i \in 1..Len(q) |-> q[Len(q) + 1 - i]]

ListDir(names, rev) ==
    IF rev THEN Reverse(InSomeOrder(names)) ELSE InSomeOrder(names)

\* the item of the listing for out/tei/<state_dir>/<base>.xml
Item(metadata, base) ==
    LET div_state == StateOf(metadata, base)
    IN  [id |-> base,
         state |-> div_state,
         tei_state |-> ReplaceSpace(div_state),
         include_html |-> div_state \in ALLOWED_HTML_STATES,
         fol_range |-> FolRangeOf(metadata, base)]

RECURSIVE ItemsOfFiles(_, _)
ItemsOfFiles(metadata, names) ==
    IF names = <<>> THEN <<>>
    ELSE <<Item(metadata, Head(names))>> \o ItemsOfFiles(metadata, Tail(names))

RECURSIVE ItemsOfDirs(_, _, _)
ItemsOfDirs(tree, metadata, state_dirs) ==
    IF state_dirs = <<>> THEN <<>>
    ELSE ItemsOfFiles(metadata,
            Sorted({ p.name : p \in { q \in DOMAIN tree :
                       q.dir = "tei" /\ q.state = Head(state_dirs) } }))
         \o ItemsOfDirs(tree, metadata, Tail(state_dirs))

RECURSIVE Keep(_, _)
Keep(items, group) ==
    IF items = <<>> THEN <<>>
    ELSE (IF (IF Head(items).state = SNearComplete THEN "near-complete"
              ELSE IF Head(items).state = SComplete THEN "complete"
              ELSE "incomplete") = group
            THEN <<Head(items)>> ELSE <<>>) \o Keep(Tail(items), group)

\* grouped_listing after the sort
GroupedListing(tree, metadata, rev) ==
    LET state_dirs == ListDir({ p.state : p \in { q \in DOMAIN tree :
                                                   q.dir = "tei" } }, rev)
        items == ItemsOfDirs(tree, metadata, state_dirs)
    IN  [complete |-> SortByFolio(Keep(items, "complete")),
         near_complete |-> SortByFolio(Keep(items, "near-complete")),
         incomplete |-> SortByFolio(Keep(items, "incomplete"))]

----------------------------------------------------------------------------
(* The batch run as a state machine.                                       *)

BatchRows(id, fols) ==
    { <<>> } \cup { <<[id |-> id, state |-> st, fol_range |-> f]>> :
                      st \in StateTexts, f \in fols }

BatchCsvFiles ==
    { [exists |-> FALSE, has_id |-> FALSE, rows |-> <<>>],
      [exists |-> TRUE, has_id |-> FALSE, rows |-> <<>>] }
    \cup { [exists |-> TRUE, has_id |-> TRUE, rows |-> a \o b] :
             a \in BatchRows(<<"A">>, { <<"3">>, <<"f", "3">>, <<>> }),
             b \in BatchRows(<<" ", "b", " ">>,
                             { <<"1", "2", "-", "1", "5">>, <<>> }) }

Masters == { << <<"A">>, <<"b">> >>, << <<"b">> >>, << <<"C">> >> }

Failures == { {}, { << <<"A">>, "diplomatic" >> }, { << <<"b">>, "critical" >> } }

InitBatch ==
    /\ ExtractIdle
    /\ csv_file \in BatchCsvFiles
    /\ master \in Masters
    /\ xslt_fail \in Failures
    /\ preceding_pb_elem = 0
    /\ pd_lines = <<>>
    /\ listdir_rev \in BOOLEAN
    /\ fs = NoMap
    /\ bpc = "start"
    /\ status = ""
    /\ metadata_dict = NoMap
    /\ divs = <<>>
    /\ position = 0
    /\ written = {}
    /\ runs = 0
    /\ fs_first = NoMap

EveryDiv(doc, metadata) == doc

\* the divs the XPath expression selects, in document order
SelectedDivs(doc, metadata) ==
    LET Wanted(d) == d \in DOMAIN metadata
    IN  SelectSeq(doc, Wanted)

\* From the dictionary to the head of the loop over the divs.
SelectDivs ==
    /\ bpc = "loaded"
    /\ divs' = IF DOMAIN metadata_dict = {} THEN <<>>
               ELSE SelectedDivs(master, metadata_dict)
    /\ IF divs' = <<>>
         THEN /\ status' = "1"
              /\ bpc' = "exited"
              /\ position' = 0
         ELSE /\ status' = status
              /\ bpc' = "tei"
              /\ position' = 1
    /\ UNCHANGED <<csv_file, master, xslt_fail, preceding_pb_elem, pd_lines,
                   listdir_rev, fs,
                   metadata_dict, written, runs, fs_first>>
    /\ UNCHANGED extractVars

\* The body of the loop up to the call of process_div: the standalone TEI
\* file of the section.
ExtractTei ==
    /\ bpc = "tei"
    /\ LET div_id == divs[position]
           norm_div_state == ReplaceSpace(StateOf(metadata_dict, div_id))
           out_path == TeiPath(norm_div_state, div_id)
       IN  /\ fs' = Write(fs, out_path,
                          Chunk("tei", div_id, "", <<>>, <<>>))
           /\ written' = written \cup {out_path}
    /\ bpc' = "diplomatic"
    /\ UNCHANGED <<csv_file, master, xslt_fail, preceding_pb_elem, pd_lines,
                   listdir_rev, status,
                   metadata_dict, divs, position, runs, fs_first>>
    /\ UNCHANGED extractVars

\* process_div, one edition.  A transform that fails returns None, which
\* extract_lines_from_xml hands to ET.fromstring: TypeError, caught neither
\* in process_div nor in the driver, so the interpreter ends with status 1.
ProcessEdition ==
    /\ bpc \in {"diplomatic", "critical"}
    /\ LET tei_basename == divs[position]
           edition == bpc
           div_state == StateOf(metadata_dict, tei_basename)
           norm_div_state == ReplaceSpace(div_state)
           generate_html == norm_div_state \in ALLOWED_HTML_STATES
           txt_out == TxtPath(norm_div_state, edition, tei_basename)
           csv_out == CsvPath(norm_div_state, edition, tei_basename)
           html_out == HtmlPath(edition, tei_basename)
           with_txt == Write(fs, txt_out,
                             Chunk("txt", tei_basename, edition, <<>>, <<>>))
           with_csv == Write(with_txt, csv_out,
                             Chunk("csv", tei_basename, edition, <<>>, <<>>))
       IN  IF <<tei_basename, edition>> \in xslt_fail
             THEN /\ status' = "1"
                  /\ bpc' = "exited"
                  /\ UNCHANGED <<fs, written, position>>
             ELSE /\ fs' = IF generate_html
                             THEN Write(with_csv, html_out,
                                        Chunk("html", tei_basename, edition,
                                              div_state, <<>>))
                             ELSE with_csv
                  /\ written' = written \cup {txt_out, csv_out}
                                  \cup (IF generate_html THEN {html_out} ELSE {})
                  /\ status' = status
                  /\ bpc' = IF edition = "diplomatic" THEN "critical"
                            ELSE IF position < Len(divs) THEN "tei"
                            ELSE "index"
                  /\ position' = IF edition = "critical" /\ position < Len(divs)
                                   THEN position + 1 ELSE position
    /\ UNCHANGED <<csv_file, master, xslt_fail, preceding_pb_elem, pd_lines,
                   listdir_rev, metadata_dict,
                   divs, runs, fs_first>>
    /\ UNCHANGED extractVars

\* The index, and the end of the run.
BuildIndex ==
    /\ bpc = "index"
    /\ LET grouped_listing == GroupedListing(fs, metadata_dict, listdir_rev)
           any == \/ grouped_listing.complete # <<>>
                  \/ grouped_listing.near_complete # <<>>
                  \/ grouped_listing.incomplete # <<>>
       IN  IF any
             THEN /\ fs' = Write(fs, IndexPath,
                                 Chunk("index", <<>>, "", <<>>, grouped_listing))
                  /\ written' = written \cup {IndexPath}
             ELSE UNCHANGED <<fs, written>>
    /\ status' = "0"
    /\ bpc' = "exited"
    /\ UNCHANGED <<csv_file, master, xslt_fail, preceding_pb_elem, pd_lines,
                   listdir_rev, metadata_dict,
                   divs, position, runs, fs_first>>
    /\ UNCHANGED extractVars

\* The driver is started again on the same input and the same tree.
Rerun ==
    /\ bpc = "exited"
    /\ runs + 1 < MaxRuns
    /\ runs' = runs + 1
    /\ fs_first' = IF runs = 0 THEN fs ELSE fs_first
    /\ bpc' = "start"
    /\ status' = ""
    /\ metadata_dict' = NoMap
    /\ divs' = <<>>
    /\ position' = 0
    /\ written' = {}
    /\ UNCHANGED <<csv_file, master, xslt_fail, preceding_pb_elem, pd_lines,
                   listdir_rev, fs>>
    /\ UNCHANGED extractVars

NextBatch ==
    \/ OpenMetadata
    \/ ReadRow
    \/ SelectDivs
    \/ ExtractTei
    \/ ProcessEdition
    \/ BuildIndex
    \/ Rerun

SpecBatch == InitBatch /\ [][NextBatch]_vars

----------------------------------------------------------------------------
(* The fragment as the claims speak of it, read off the element sequence   *)
(* without the extractor's own lists.                                      *)

Max(S) == CHOOSE m \in S : \A o \in S : o <= m
Min(S) == CHOOSE m \in S : \A o \in S : m <= o

RECURSIVE Ancestors(_)
Ancestors(i) ==
    IF xml[i].parent = 0 THEN {}
    ELSE {xml[i].parent} \cup Ancestors(xml[i].parent)

RECURSIVE TaggedFrom(_, _)
TaggedFrom(tag, j) ==
    IF j > Len(xml) THEN <<>>
    ELSE (IF xml[j].tag = tag THEN <<j>> ELSE <<>>) \o TaggedFrom(tag, j + 1)

\* the line elements of the fragment in document order
AllL == TaggedFrom("l", 1)

\* the element of the k-th record
LineOf(k) == AllL[k]

FirstDiv ==
    LET ds == { j \in 2..Len(xml) : xml[j].tag = "div" }
    IN  IF ds = {} THEN 0 ELSE Min(ds)

\* the first div and what is inside it, or the whole fragment without a div
InNodeList(i) == FirstDiv = 0 \/ i = FirstDiv \/ FirstDiv \in Ancestors(i)

EffectiveValue(e) == IF e.n # "" THEN e.n ELSE e.xmlid

PbBefore(i) == { j \in 1..(i - 1) : xml[j].tag = "pb" }

ColMarkerBefore(i) ==
    { j \in 1..(i - 1) :
        \/ xml[j].tag = "cb"
        \/ xml[j].tag = "milestone" /\ xml[j].unit = "column" }

InList(S) == { j \in S : InNodeList(j) }

GroupAncestor(i) ==
    LET as == { j \in Ancestors(i) :
                  xml[j].tag \in {"lg", "p", "sp"} /\ InNodeList(j) }
    IN  IF as = {} THEN 0 ELSE Max(as)

Records == 1..Len(lines)

----------------------------------------------------------------------------
(* C1: the extraction returns exactly one record per l element of the      *)
(* fragment, in document order, and the i-th record has line_no = i,       *)
(* counted from 1 in every call.                                           *)
C1_OneRecordPerLine ==
    /\ Len(lines) <= Len(AllL)
    /\ \A k \in Records :
         /\ lines[k].line_no = k
         /\ lines[k].l_id = xml[LineOf(k)].xmlid
    /\ pc = "done" => Len(lines) = Len(AllL)

C1_Witness ==
    /\ pc = "done"
    /\ Len(lines) = 2
    /\ lines[2].line_no = 2
    /\ lines[1].l_id # lines[2].l_id

----------------------------------------------------------------------------
(* C2 as stated: a line whose nearest preceding pb anywhere in the         *)
(* fragment has a non-empty effective value v has folio v, whatever the    *)
(* seed.                                                                   *)
C2_NearestPbAnywhere ==
    \A k \in Records :
      LET pbs == PbBefore(LineOf(k))
      IN  (pbs # {} /\ EffectiveValue(xml[Max(pbs)]) # "")
            => lines[k].folio = EffectiveValue(xml[Max(pbs)])

(* C2 as amended: only the node list (the first div with what is inside    *)
(* it, or the whole fragment without a div) is scanned.  A line of the     *)
(* node list whose nearest preceding pb of the node list has a non-empty   *)
(* effective value v has folio v, whatever the seed, the closest pb        *)
(* winning; a pb outside the node list is not seen, and a line outside the *)
(* node list has the seed folio.                                           *)
C2_NearestPbInNodeList ==
    \A k \in Records :
      LET pbs == InList(PbBefore(LineOf(k)))
      IN  /\ (InNodeList(LineOf(k)) /\ pbs # {}
                /\ EffectiveValue(xml[Max(pbs)]) # "")
               => lines[k].folio = EffectiveValue(xml[Max(pbs)])
          /\ (~InNodeList(LineOf(k)) \/ pbs = {})
               => lines[k].folio = initial_folio

C2_Witness ==
    /\ pc = "done"
    /\ initial_folio = "9v"
    /\ \E k \in Records :
         LET pbs == InList(PbBefore(LineOf(k)))
         IN  /\ InNodeList(LineOf(k))
             /\ Cardinality(pbs) = 2
             /\ EffectiveValue(xml[Max(pbs)]) = "2v"
             /\ EffectiveValue(xml[Min(pbs)]) = "1r"
             /\ lines[k].folio = "2v"

----------------------------------------------------------------------------
(* C3: a line that no pb of the fragment precedes has the seed folio, and  *)
(* a line that no cb and no milestone of unit column precedes has the seed *)
(* column; the record is produced all the same.                            *)
C3_SeedWhenNoMarker ==
    /\ \A k \in Records :
         /\ PbBefore(LineOf(k)) = {} => lines[k].folio = initial_folio
         /\ ColMarkerBefore(LineOf(k)) = {} => lines[k].col = initial_col
    /\ pc = "done" => Len(lines) = Len(AllL)

C3_Witness ==
    /\ pc = "done"
    /\ initial_folio = "9v"
    /\ \E k \in Records :
         /\ PbBefore(LineOf(k)) = {}
         /\ ColMarkerBefore(LineOf(k)) = {}
         /\ \E j \in 1..(LineOf(k) - 1) : xml[j].tag = "milestone"
         /\ \E j \in (LineOf(k) + 1)..Len(xml) : xml[j].tag = "pb"
         /\ lines[k].folio = "9v"
         /\ lines[k].col = "z"

----------------------------------------------------------------------------
Content(i) == [xml[i] EXCEPT !.parent = 0]

----------------------------------------------------------------------------
(* C5: at every point of an extraction the group ids handed out so far are *)
(* 1..k, one container per id; the first line with a container has id 1    *)
(* and a line whose container was not met before has the previous maximum  *)
(* plus one.                                                               *)
SeenBefore(k) == { GroupAncestor(LineOf(j)) : j \in 1..(k - 1) } \ {0}

C5_GroupIdsDense ==
    /\ Cardinality(DOMAIN ancestor_group_map) = next_group_id
    /\ { ancestor_group_map[c] : c \in DOMAIN ancestor_group_map }
         = 1..next_group_id
    /\ { lines[k].lg : k \in Records } \ {""}
         = { Str(g) : g \in 1..next_group_id }
    /\ \A k \in Records :
         LET c == GroupAncestor(LineOf(k))
         IN  (c # 0 /\ c \notin SeenBefore(k))
               => lines[k].lg = Str(Cardinality(SeenBefore(k)) + 1)

C5_Witness ==
    /\ pc = "loop"
    /\ next_group_id = 1
    /\ Len(lines) = 1
    /\ lines[1].lg = "1"
    /\ GroupAncestor(Head(todo)) \notin {0, GroupAncestor(LineOf(1))}

----------------------------------------------------------------------------
(* C6: the speaker of a record comes from the nearest sp that encloses the *)
(* line, and is empty for a line that no sp encloses, a line after a       *)
(* closed sp included.                                                     *)
EnclosingSp(i) == { j \in Ancestors(i) : xml[j].tag = "sp" }

WithoutSigil(w) == IF w # <<>> /\ w[1] = "#" THEN SubSeq(w, 2, Len(w)) ELSE w

C6_SpeakerOfEnclosingSp ==
    \A k \in Records :
      LET sps == EnclosingSp(LineOf(k))
      IN  lines[k].speaker =
            IF sps = {} THEN <<>> ELSE WithoutSigil(xml[Max(sps)].who)

----------------------------------------------------------------------------
(* C7 as stated: the column of a line is the effective value of the        *)
(* nearest preceding cb or milestone of unit column.                       *)
C7_ColumnIsEffectiveValue ==
    \A k \in Records :
      LET ms == ColMarkerBefore(LineOf(k))
      IN  ms # {} => lines[k].col = EffectiveValue(xml[Max(ms)])

(* C7 as amended: the column of a line of the node list is decided by the  *)
(* nearest preceding element of the node list that is a cb or a milestone  *)
(* of unit column, milestones of another unit being skipped and a pb in    *)
(* between changing nothing: it is that marker's n, else its identifier,   *)
(* else the seed column.  Without such a marker, and for a line outside    *)
(* the node list, it is the seed column.                                   *)
C7_ColumnOfNearestMarker ==
    \A k \in Records :
      LET ms == InList(ColMarkerBefore(LineOf(k)))
      IN  lines[k].col =
            IF InNodeList(LineOf(k)) /\ ms # {}
              THEN IF EffectiveValue(xml[Max(ms)]) # ""
                     THEN EffectiveValue(xml[Max(ms)])
                     ELSE initial_col
              ELSE initial_col

C7_Witness ==
    /\ pc = "done"
    /\ initial_col = "z"
    /\ \E k \in Records :
         LET ms == InList(ColMarkerBefore(LineOf(k)))
         IN  /\ InNodeList(LineOf(k))
             /\ ms # {}
             /\ xml[Max(ms)].tag = "milestone"
             /\ \E j \in (Max(ms) + 1)..(LineOf(k) - 1) :
                  \/ xml[j].tag = "pb"
                  \/ xml[j].tag = "milestone" /\ xml[j].unit # "column"
             /\ lines[k].col = "b"

----------------------------------------------------------------------------
(* C8 as stated: when the nearest preceding pb (column marker) has neither *)
(* n nor identifier, the folio (column) is the empty string and not the    *)
(* seed.                                                                   *)
C8_BareMarkerGivesEmpty ==
    \A k \in Records :
      LET pbs == PbBefore(LineOf(k))
          ms == ColMarkerBefore(LineOf(k))
      IN  /\ (pbs # {} /\ EffectiveValue(xml[Max(pbs)]) = "")
                => lines[k].folio = ""
          /\ (ms # {} /\ EffectiveValue(xml[Max(ms)]) = "")
                => lines[k].col = ""

(* C8 as amended: when the nearest preceding pb (column marker) of the     *)
(* node list has neither n nor identifier, the scan stops at it all the    *)
(* same, no marker farther back is consulted, and the folio (column) is    *)
(* the seed value.                                                         *)
C8_BareMarkerGivesSeed ==
    \A k \in Records :
      LET pbs == InList(PbBefore(LineOf(k)))
          ms == InList(ColMarkerBefore(LineOf(k)))
      IN  InNodeList(LineOf(k)) =>
            /\ (pbs # {} /\ EffectiveValue(xml[Max(pbs)]) = "")
                  => lines[k].folio = initial_folio
            /\ (ms # {} /\ EffectiveValue(xml[Max(ms)]) = "")
                  => lines[k].col = initial_col

C8_Witness ==
    /\ pc = "done"
    /\ initial_folio = "9v"
    /\ \E k \in Records :
         LET pbs == InList(PbBefore(LineOf(k)))
         IN  /\ InNodeList(LineOf(k))
             /\ Cardinality(pbs) = 2
             /\ EffectiveValue(xml[Max(pbs)]) = ""
             /\ EffectiveValue(xml[Min(pbs)]) = "1r"
             /\ lines[k].folio = "9v"

----------------------------------------------------------------------------
(* C9: div[ pb n=1r, lg[ l id=l1 "Foo", l id=l2 "Bar" ] ] extracted with   *)
(* empty seeds gives the two records of the scenario and no other.         *)
C9Fragment ==
    << [Elem("div", "", "", "", <<>>, <<>>) EXCEPT !.parent = 0],
       [Elem("pb", "1r", "", "", <<>>, <<>>) EXCEPT !.parent = 1],
       [Elem("lg", "", "", "", <<>>, <<>>) EXCEPT !.parent = 1],
       [Elem("l", "", "l1", "", <<>>, <<"F", "o", "o">>) EXCEPT !.parent = 3],
       [Elem("l", "", "l2", "", <<>>, <<"B", "a", "r">>) EXCEPT !.parent = 3] >>

C9Records ==
    << [line_no |-> 1, text |-> <<"F", "o", "o">>, lg |-> "1", l_id |-> "l1",
        folio |-> "1r", col |-> "", speaker |-> <<>>],
       [line_no |-> 2, text |-> <<"B", "a", "r">>, lg |-> "1", l_id |-> "l2",
        folio |-> "1r", col |-> "", speaker |-> <<>>] >>

C9Extracted ==
    /\ xml = C9Fragment
    /\ initial_folio = ""
    /\ initial_col = ""
    /\ pc = "done"

C9_Scenario == C9Extracted => lines = C9Records

C9_Witness == C9Extracted /\ Len(lines) = 2

----------------------------------------------------------------------------
(* C10: with a div in the fragment, only the lines of the first div are    *)
(* extracted; a line outside it gives no record and takes no line number.  *)
C10_OnlyLinesOfFirstDiv ==
    /\ \A k \in Records : InNodeList(LineOf(k))
    /\ pc = "done" =>
         Len(lines) = Cardinality({ i \in Range(AllL) : InNodeList(i) })

----------------------------------------------------------------------------
(* Speech elements with every shape of the who attribute.                  *)

\* Elements below the root in the fragments of SpecSpeaker.
MaxSpeakerNodes == 3

SpeakerElems ==
    { Elem("sp", "", "", "", w, <<>>) :
        w \in { <<>>, <<"a">>, <<"#", "a">>, <<"#", "#", "a">> } }

SpeakerExtensions(d) ==
    { f \in { Append(d, [e EXCEPT !.parent = p]) :
               e \in SpeakerElems \cup LineElems,
               p \in OpenPath(d, Len(d)) } : Len(f) - 1 <= MaxSpeakerNodes }

ElementOfSpeech ==
    /\ pc = "input"
    /\ xml' \in SpeakerExtensions(xml)
    /\ UNCHANGED <<initial_folio, initial_col, pc, div_elem, doc_nodes,
                   parent_map, todo, line_counter, ancestor_group_map,
                   next_group_id, lines>>
    /\ UNCHANGED batchVars

NextSpeaker == ElementOfSpeech \/ Begin \/ ExtractLine

SpecSpeaker == Init /\ [][NextSpeaker]_vars

----------------------------------------------------------------------------
(* C18: when the sp selected for a line (the nearest sp before the line in *)
(* the node list) has a who attribute, the speaker is that value with      *)
(* exactly one leading # removed if there is one; when it has none the     *)
(* speaker is empty, whatever sp stands farther back.                      *)
SpBefore(i) == { j \in 1..(i - 1) : xml[j].tag = "sp" }

C18_SpeakerFromSelectedSp ==
    \A k \in Records :
      LET sps == InList(SpBefore(LineOf(k)))
          who == xml[Max(sps)].who
      IN  (InNodeList(LineOf(k)) /\ sps # {}) =>
            /\ who = <<>> => lines[k].speaker = <<>>
            /\ (who # <<>> /\ who[1] = "#") =>
                  lines[k].speaker = SubSeq(who, 2, Len(who))
            /\ (who # <<>> /\ who[1] # "#") => lines[k].speaker = who

\* "##a" gives "#a" although an sp with who="#a" stands farther back, and
\* an sp without who hides an sp with who="a".
C18_Witness ==
    /\ pc = "done"
    /\ \E k \in Records :
         LET sps == SpBefore(LineOf(k))
         IN  /\ Cardinality(sps) = 2
             /\ xml[Max(sps)].who = <<"#", "#", "a">>
             /\ xml[Min(sps)].who = <<"#", "a">>
             /\ lines[k].speaker = <<"#", "a">>

----------------------------------------------------------------------------
(* Lines with mixed content: editorial elements with text and tail.        *)

\* Elements below the root in the fragments of SpecText.
MaxTextNodes == 3

Mixed(tag, text, tail) ==
    [Elem(tag, "", "", "", <<>>, text) EXCEPT !.tail = tail]

MixedLineElems ==
    { Mixed("l", <<" ", "a">>, <<"\n", " ">>),
      Mixed("l", <<>>, <<"t">>) }

EditorialElems ==
    { Mixed("ex", <<"e">>, <<" ", " ">>),
      Mixed("add", <<"b">>, <<>>),
      Mixed("supplied", <<>>, <<"s">>),
      Mixed("del", <<"d", " ">>, <<>>),
      Mixed("surplus", <<"u">>, <<"\t">>),
      Mixed("gap", <<"g">>, <<"h">>),
      Mixed("gap", <<>>, <<>>),
      Mixed("hi", <<"i">>, <<" ">>),
      Mixed("seg", <<" ">>, <<>>) }

\* The open elements below the root: each can take an editorial element.
RECURSIVE OpenBelowRoot(_, _)
OpenBelowRoot(d, i) ==
    IF i <= 1 THEN {} ELSE {i} \cup OpenBelowRoot(d, d[i].parent)

MixedExtensions(d) ==
    { f \in { Append(d, [e EXCEPT !.parent = 1]) : e \in MixedLineElems }
            \cup { Append(d, [e EXCEPT !.parent = p]) :
                     e \in EditorialElems, p \in OpenBelowRoot(d, Len(d)) } :
        Len(f) - 1 <= MaxTextNodes }

ElementOfText ==
    /\ pc = "input"
    /\ xml' \in MixedExtensions(xml)
    /\ UNCHANGED <<initial_folio, initial_col, pc, div_elem, doc_nodes,
                   parent_map, todo, line_counter, ancestor_group_map,
                   next_group_id, lines>>
    /\ UNCHANGED batchVars

NextText == ElementOfText \/ Begin \/ ExtractLine

SpecText == Init /\ [][NextText]_vars

----------------------------------------------------------------------------
(* The rendering as the claims speak of it.                                *)

Nodes == 1..Len(xml)

ChildSet(i) == { j \in Nodes : xml[j].parent = i }

\* what get_text_with_markup gives for the children from j on, in document
\* order, each with the tail that follows it
RECURSIVE RenderedChildren(_, _)
RenderedChildren(i, j) ==
    IF j > Len(xml) THEN <<>>
    ELSE (IF xml[j].parent = i THEN get_text_with_markup(xml, j) ELSE <<>>)
         \o RenderedChildren(i, j + 1)

Placeholder == <<" ", "[", ".", ".", ".", "]">>

EndsWith(t, s) ==
    Len(s) <= Len(t) /\ SubSeq(t, Len(t) - Len(s) + 1, Len(t)) = s

----------------------------------------------------------------------------
(* C15: rendering a gap element yields exactly the ellipsis placeholder,   *)
(* whatever text and children the gap has, and nothing else is added.      *)
C15_GapIsPlaceholder ==
    pc = "done" =>
      \A i \in Nodes :
        xml[i].tag = "gap" => get_text_with_markup(xml, i) = Placeholder

----------------------------------------------------------------------------
(* C16: at any depth the text of an element followed by its rendered       *)
(* children is wrapped in <em>..</em> for ex, in [..] for add and          *)
(* supplied, in (..) for del and surplus, and left as it is for a tag      *)
(* without a rule of its own, nothing being added or removed inside; the   *)
(* tail of an element follows its rendering.                               *)
C16_WrapByTag ==
    \A i \in Nodes :
      LET tag == xml[i].tag
          inside == xml[i].text \o RenderedChildren(i, 1)
          out == get_text_with_markup(xml, i)
      IN  /\ tag = "ex" =>
                out = <<"<", "e", "m", ">">> \o inside
                      \o <<"<", "/", "e", "m", ">">> \o xml[i].tail
          /\ tag \in {"add", "supplied"} =>
                out = <<"[">> \o inside \o <<"]">> \o xml[i].tail
          /\ tag \in {"del", "surplus"} =>
                out = <<"(">> \o inside \o <<")">> \o xml[i].tail
          /\ tag \notin {"ex", "add", "supplied", "del", "surplus", "gap"} =>
                out = inside \o xml[i].tail
          /\ EndsWith(out, xml[i].tail)

\* an ex inside an add inside a line, with text and tails at each level
C16_Witness ==
    /\ pc = "done"
    /\ \E i \in Nodes :
         /\ xml[i].tag = "ex" /\ xml[i].text # <<>> /\ xml[i].tail # <<>>
         /\ xml[i].parent > 1
         /\ xml[xml[i].parent].tag = "add"
         /\ xml[xml[i].parent].text # <<>>
         /\ xml[xml[i].parent].parent > 1
         /\ xml[xml[xml[i].parent].parent].tag = "l"
    /\ \E k \in Records :
         lines[k].text = <<"a", "[", "b", "<", "e", "m", ">", "e",
                           "<", "/", "e", "m", ">", " ", "]">>

----------------------------------------------------------------------------
(* C17: the text of a record has no whitespace at either end and no two    *)
(* whitespace characters in a row, each run of the rendering having become *)
(* one space; normalizing it again changes nothing.                        *)
RECURSIVE Words(_, _)
Words(t, cur) ==
    IF t = <<>> THEN (IF cur = <<>> THEN <<>> ELSE <<cur>>)
    ELSE IF Head(t) \in Whitespace
      THEN (IF cur = <<>> THEN <<>> ELSE <<cur>>) \o Words(Tail(t), <<>>)
      ELSE Words(Tail(t), Append(cur, Head(t)))

C17_TextNormalized ==
    \A k \in Records :
      LET t == lines[k].text
          raw == get_text_with_markup(xml, LineOf(k))
      IN  /\ t # <<>> => (t[1] \notin Whitespace /\ t[Len(t)] \notin Whitespace)
          /\ \A i \in 1..(Len(t) - 1) :
               ~(t[i] \in Whitespace /\ t[i + 1] \in Whitespace)
          /\ \A i \in 1..Len(t) : t[i] \in Whitespace => t[i] = " "
          /\ Words(t, <<>>) = Words(raw, <<>>)
          /\ NormalizeText(t) = t

\* a rendering with whitespace at both ends and a run of two inside
C17_Witness ==
    /\ pc = "done"
    /\ \E k \in Records :
         LET t == lines[k].text
             raw == get_text_with_markup(xml, LineOf(k))
         IN  /\ raw[1] \in Whitespace
             /\ raw[Len(raw)] \in Whitespace
             /\ \E i \in 2..(Len(raw) - 2) :
                  /\ raw[i - 1] \notin Whitespace
                  /\ raw[i] \in Whitespace /\ raw[i + 1] \in Whitespace
                  /\ raw[i + 2] \notin Whitespace
             /\ Len(Words(t, <<>>)) = 2

----------------------------------------------------------------------------
(* C19: load_metadata skips a row whose id is blank or only whitespace and *)
(* keeps loading: every other row is in the result under its trimmed id    *)
(* with its state in lower case, and the blank row does not end the run.   *)
NonBlank(r) == \E i \in DOMAIN r.id : r.id[i] \notin Whitespace

Trimmed(t) ==
    LET ks == { i \in DOMAIN t : t[i] \notin Whitespace }
    IN  IF ks = {} THEN <<>> ELSE SubSeq(t, Min(ks), Max(ks))

SameButCase(a, b) ==
    /\ Len(a) = Len(b)
    /\ \A i \in DOMAIN a :
         \/ a[i] = b[i]
         \/ \E j \in DOMAIN UpperCase : a[i] = UpperCase[j] /\ b[i] = LowerCase[j]

RowsRead ==
    IF bpc = "loaded" THEN Len(csv_file.rows)
    ELSE IF bpc = "rows" THEN position - 1 ELSE 0

C19_BlankRowSkipped ==
    /\ (csv_file.exists /\ csv_file.has_id) => status = ""
    /\ \A k \in 1..RowsRead :
         LET r == csv_file.rows[k]
         IN  NonBlank(r) =>
               /\ Trimmed(r.id) \in DOMAIN metadata_dict
               /\ SameButCase(Trimmed(r.state), metadata_dict[Trimmed(r.id)].state)
               /\ \A c \in Range(metadata_dict[Trimmed(r.id)].state) :
                    c \notin Range(UpperCase)
               /\ metadata_dict[Trimmed(r.id)].fol_range = r.fol_range
    /\ DOMAIN metadata_dict =
         { Trimmed(csv_file.rows[k].id) :
             k \in { j \in 1..RowsRead : NonBlank(csv_file.rows[j]) } }

\* a blank row between two rows that are kept
C19_Witness ==
    /\ bpc = "loaded"
    /\ Len(csv_file.rows) = 3
    /\ csv_file.rows[1].id = <<"A">>
    /\ csv_file.rows[2].id = <<" ">>
    /\ csv_file.rows[3].id = <<" ", "b", " ">>
    /\ csv_file.rows[3].state = <<"C">> \o Tail(SComplete)
    /\ DOMAIN metadata_dict = { <<"A">>, <<"b">> }
    /\ metadata_dict[<<"b">>].state = SComplete

----------------------------------------------------------------------------
(* The batch run as the claims speak of it.                                *)

Editions == {"diplomatic", "critical"}

\* the row of the metadata table for a section, if there is one
RowsFor(id) == { r \in Range(csv_file.rows) : Trimmed(r.id) = id }

Identifiers == { Trimmed(r.id) : r \in { q \in Range(csv_file.rows) : NonBlank(q) } }

\* lower-cased, spaces replaced by hyphens
Normalized(t) ==
    [i \in 1..Len(t) |-> IF t[i] = " " THEN "-" ELSE LowerChar(t[i])]

NormalizedState(id) ==
    IF RowsFor(id) = {} THEN SIncomplete
    ELSE Normalized(Trimmed((CHOOSE r \in RowsFor(id) : TRUE).state))

Publishable(id) == NormalizedState(id) \in {SComplete, SNearComplete}

\* the transform fails for a section the run comes to
FailedSection == { k \in DOMAIN divs : \E e \in Editions : <<divs[k], e>> \in xslt_fail }

\* process_div has finished edition e of the k-th section in this run
Finished(k, e) ==
    \/ k < position
    \/ bpc = "index"
    \/ bpc = "exited" /\ status = "0"
    \/ k = position /\ e = "diplomatic" /\ bpc = "critical"
    \/ /\ k = position /\ e = "diplomatic" /\ bpc = "exited" /\ status = "1"
       /\ <<divs[k], "diplomatic">> \notin xslt_fail

----------------------------------------------------------------------------
(* C11: when the cleaning transform fails for a section and edition, only  *)
(* the outputs derived from it are skipped: the run does not abort, every  *)
(* other section and edition is still processed and the index is built.    *)
C11_FailureSkipsOnlyItsOutputs ==
    (bpc = "exited" /\ FailedSection # {}) =>
      /\ status = "0"
      /\ IndexPath \in written
      /\ \A k \in DOMAIN divs : \A e \in Editions :
           <<divs[k], e>> \notin xslt_fail =>
             /\ TxtPath(NormalizedState(divs[k]), e, divs[k]) \in written
             /\ CsvPath(NormalizedState(divs[k]), e, divs[k]) \in written

----------------------------------------------------------------------------
(* C12: with a configuration error (no metadata file, no id column, no     *)
(* identifier in the metadata, no section of the master document among the *)
(* identifiers) the run writes nothing, neither a section's TEI, text,     *)
(* tabular or HTML file nor the index, never enters the loop over the      *)
(* sections, and ends with a status other than 0.                          *)
ConfigurationError ==
    \/ ~csv_file.exists
    \/ ~csv_file.has_id
    \/ Identifiers = {}
    \/ \A i \in DOMAIN master : master[i] \notin Identifiers

C12_ConfigurationErrorStopsFirst ==
    ConfigurationError =>
      /\ written = {}
      /\ bpc \in {"start", "rows", "loaded", "exited"}
      /\ bpc = "exited" => status = "1"
      /\ runs = 0 => fs = NoMap

\* the last of the four checks: identifiers, but none in the master document
C12_Witness ==
    /\ bpc = "exited"
    /\ status = "1"
    /\ csv_file.exists /\ csv_file.has_id
    /\ Identifiers = { <<"A">> }
    /\ master = << <<"b">> >>
    /\ written = {}

----------------------------------------------------------------------------
(* C13: for every section and each of the two editions process_div writes  *)
(* the text and the tabular file, and it writes the HTML page if and only  *)
(* if the normalized state of the section is complete or near-complete; no *)
(* page is written for any other section.                                  *)
C13_HtmlOnlyWhenPublishable ==
    /\ \A k \in DOMAIN divs : \A e \in Editions :
         Finished(k, e) =>
           /\ TxtPath(NormalizedState(divs[k]), e, divs[k]) \in written
           /\ CsvPath(NormalizedState(divs[k]), e, divs[k]) \in written
           /\ HtmlPath(e, divs[k]) \in written <=> Publishable(divs[k])
    /\ \A p \in written :
         p.dir = "html" /\ p # IndexPath =>
           \E k \in DOMAIN divs : Lower(divs[k]) = p.name /\ Publishable(divs[k])

\* "Near complete" is normalized into the allow-list; incomplete is not in it
C13_Witness ==
    /\ bpc = "exited" /\ status = "0"
    /\ divs = << <<"A">>, <<"b">> >>
    /\ \E r \in RowsFor(<<"A">>) : r.state = <<"N", "e", "a", "r", " ">> \o SComplete
    /\ \E r \in RowsFor(<<"b">>) : r.state = <<" ">> \o SIncomplete
    /\ HtmlPath("critical", <<"A">>) \in written
    /\ HtmlPath("critical", <<"b">>) \notin written
    /\ TxtPath(SIncomplete, "critical", <<"b">>) \in written

----------------------------------------------------------------------------
(* C14: in each group of the index the sections stand in ascending order   *)
(* of the first integer that occurs anywhere in their folio range, and the *)
(* sections whose folio range has no digit stand behind all the others.    *)
HasDigit(t) == \E i \in DOMAIN t : IsDigit(t[i])

\* the first run of digits of t, as a number
FirstInteger(t) ==
    LET from == Min({ i \in DOMAIN t : IsDigit(t[i]) })
        upto == Max({ j \in from..Len(t) : \A i \in from..j : IsDigit(t[i]) })
    IN  ToInt(SubSeq(t, from, upto))

OrderedByFirstInteger(group) ==
    \A i \in DOMAIN group : \A j \in DOMAIN group :
      i < j =>
        /\ ~HasDigit(group[i].fol_range) => ~HasDigit(group[j].fol_range)
        /\ (HasDigit(group[i].fol_range) /\ HasDigit(group[j].fol_range)) =>
              FirstInteger(group[i].fol_range) <= FirstInteger(group[j].fol_range)

C14_IndexOrderedByFirstInteger ==
    IndexPath \in written =>
      LET listing == fs[IndexPath][1].listing
      IN  /\ OrderedByFirstInteger(listing.complete)
          /\ OrderedByFirstInteger(listing.near_complete)
          /\ OrderedByFirstInteger(listing.incomplete)

----------------------------------------------------------------------------
(* C20: a second run on the same master document and the same metadata     *)
(* leaves the tree the first run left: the same files with the same        *)
(* contents, the order of the entries of the index included.               *)
C20_SecondRunChangesNothing ==
    (runs >= 1 /\ bpc = "exited") => fs = fs_first

\* both runs wrote pages and an index with two entries in one group
C20_Witness ==
    /\ runs = 1
    /\ bpc = "exited" /\ status = "0"
    /\ IndexPath \in written
    /\ HtmlPath("diplomatic", <<"A">>) \in written
    /\ Len(fs[IndexPath][1].listing.complete) = 2
    /\ fs[IndexPath][1].listing.complete[1].id = <<"A">>
    /\ fs = fs_first

----------------------------------------------------------------------------
(* C26: the text of a record is made of what is inside the line element    *)
(* only; the text that follows the closing tag of the line, its own tail,  *)
(* is not in it.                                                           *)
C26_TextIsInsideOfLine ==
    \A k \in Records :
      lines[k].text =
        NormalizeText(xml[LineOf(k)].text \o RenderedChildren(LineOf(k), 1))

----------------------------------------------------------------------------
(* The writers: what process_div does with the records of an edition.      *)

\* re.sub(r"</?em>", "", text)
RECURSIVE StripEm(_)
StripEm(t) ==
    IF t = <<>> THEN <<>>
    ELSE IF Len(t) >= 4 /\ SubSeq(t, 1, 4) = <<"<", "e", "m", ">">>
      THEN StripEm(SubSeq(t, 5, Len(t)))
    ELSE IF Len(t) >= 5 /\ SubSeq(t, 1, 5) = <<"<", "/", "e", "m", ">">>
      THEN StripEm(SubSeq(t, 6, Len(t)))
    ELSE <<Head(t)>> \o StripEm(Tail(t))

\* WriteRow that assigns the stripped text to the record itself
WriteRowInPlace(row) ==
    [out |-> [row EXCEPT !.text = StripEm(row.text)],
     row |-> [row EXCEPT !.text = StripEm(row.text)]]

\* The body of the loops of write_txt and write_csv: `out' is what goes to
\* the file (text for write_txt, {**row, "text": text} for write_csv) and
\* `row' is the record of the list after the iteration.
WriteRow(row) ==
    [out |-> [row EXCEPT !.text = StripEm(row.text)],
     row |-> row]

TxtOut == TxtPath(<<>>, "", <<>>)
CsvOut == CsvPath(<<>>, "", <<>>)
HtmlOut == HtmlPath("", <<>>)

write_txt ==
    /\ pc = "done"
    /\ fs' = Write(fs, TxtOut, [k \in DOMAIN lines |-> WriteRow(lines[k]).out.text])
    /\ lines' = [k \in DOMAIN lines |-> WriteRow(lines[k]).row]
    /\ pc' = "txt"
    /\ UNCHANGED <<xml, initial_folio, initial_col, div_elem, doc_nodes,
                   parent_map, todo, line_counter, ancestor_group_map,
                   next_group_id>>
    /\ UNCHANGED <<csv_file, master, xslt_fail, preceding_pb_elem, pd_lines,
                   listdir_rev, bpc, status,
                   metadata_dict, divs, position, written, runs, fs_first>>

write_csv ==
    /\ pc = "txt"
    /\ fs' = Write(fs, CsvOut, [k \in DOMAIN lines |-> WriteRow(lines[k]).out])
    /\ lines' = [k \in DOMAIN lines |-> WriteRow(lines[k]).row]
    /\ pc' = "csv"
    /\ UNCHANGED <<xml, initial_folio, initial_col, div_elem, doc_nodes,
                   parent_map, todo, line_counter, ancestor_group_map,
                   next_group_id>>
    /\ UNCHANGED <<csv_file, master, xslt_fail, preceding_pb_elem, pd_lines,
                   listdir_rev, bpc, status,
                   metadata_dict, divs, position, written, runs, fs_first>>

\* render_html with the context of process_div, when generate_html holds
render_html ==
    /\ pc = "csv"
    /\ fs' = Write(fs, HtmlOut, lines)
    /\ pc' = "html"
    /\ UNCHANGED <<xml, initial_folio, initial_col, div_elem, doc_nodes,
                   parent_map, todo, line_counter, ancestor_group_map,
                   next_group_id, lines>>
    /\ UNCHANGED <<csv_file, master, xslt_fail, preceding_pb_elem, pd_lines,
                   listdir_rev, bpc, status,
                   metadata_dict, divs, position, written, runs, fs_first>>

NextWrite ==
    \/ ElementOfText
    \/ Begin
    \/ ExtractLine
    \/ write_txt
    \/ write_csv
    \/ render_html

SpecWrite == Init /\ [][NextWrite]_vars

----------------------------------------------------------------------------
(* C21: a record is never changed once it is in the list: neither by the   *)
(* lines that follow nor by write_txt and write_csv, which take the        *)
(* emphasis markers out of what they write only; the HTML renderer gets    *)
(* the records as the extractor made them.                                 *)
AsExtracted(k) ==
    lines[k].text = NormalizeText(get_text_with_markup(xml, LineOf(k)))

C21_RecordsImmutable ==
    [][ /\ \A k \in DOMAIN lines :
             k \in DOMAIN lines' /\ lines'[k] = lines[k]
        /\ pc' = "txt" =>
             fs'[TxtOut][1] = [k \in DOMAIN lines |-> StripEm(lines[k].text)]
        /\ pc' = "html" => fs'[HtmlOut][1] = lines ]_vars

\* a record with emphasis markers went through both writers to the renderer
C21_Witness ==
    /\ pc = "html"
    /\ \E k \in Records :
         /\ \E i \in DOMAIN lines[k].text : lines[k].text[i] = "<"
         /\ AsExtracted(k)
         /\ fs[HtmlOut][1][k] = lines[k]
         /\ fs[CsvOut][1][k].text # lines[k].text
         /\ \A i \in DOMAIN fs[TxtOut][1][k] : fs[TxtOut][1][k][i] # "<"

----------------------------------------------------------------------------
(* C24: after a run the index gives a section its HTML links, and lists it *)
(* under complete or near-complete, exactly when the run has written the   *)
(* HTML pages of the section: the index and process_div decide alike for   *)
(* every state, "near complete" with a space included.                     *)
PagesWritten(id) ==
    \A e \in Editions : HtmlPath(e, id) \in written

ListedAsPublishable(listing, id) ==
    \/ \E i \in DOMAIN listing.complete : listing.complete[i].id = id
    \/ \E i \in DOMAIN listing.near_complete : listing.near_complete[i].id = id

ItemsOf(listing) ==
    Range(listing.complete) \cup Range(listing.near_complete)
      \cup Range(listing.incomplete)

C24_IndexAgreesWithPages ==
    (bpc = "exited" /\ status = "0" /\ IndexPath \in written) =>
      LET listing == fs[IndexPath][1].listing
      IN  \A k \in DOMAIN divs :
            /\ \E it \in ItemsOf(listing) : it.id = divs[k]
            /\ \A it \in ItemsOf(listing) :
                 it.id = divs[k] => (it.include_html <=> PagesWritten(divs[k]))
            /\ ListedAsPublishable(listing, divs[k]) <=> PagesWritten(divs[k])

----------------------------------------------------------------------------
(* Runs between which the editors change the state of a section.           *)

InitRevise ==
    /\ InitBatch
    /\ Len(csv_file.rows) = 2
    /\ \A k \in DOMAIN csv_file.rows : csv_file.rows[k].fol_range = <<>>
    /\ master = << <<"A">>, <<"b">> >>
    /\ xslt_fail = {}
    /\ preceding_pb_elem = 0
    /\ pd_lines = <<>>

\* The state of one row of in/meta.csv is rewritten and the driver is
\* started again on the tree the run before has left.
Revise ==
    /\ bpc = "exited"
    /\ runs + 1 < MaxRuns
    /\ \E k \in DOMAIN csv_file.rows : \E st \in StateTexts :
         /\ st # csv_file.rows[k].state
         /\ csv_file' = [csv_file EXCEPT !.rows[k].state = st]
    /\ runs' = runs + 1
    /\ fs_first' = IF runs = 0 THEN fs ELSE fs_first
    /\ bpc' = "start"
    /\ status' = ""
    /\ metadata_dict' = NoMap
    /\ divs' = <<>>
    /\ position' = 0
    /\ written' = {}
    /\ UNCHANGED <<master, xslt_fail, preceding_pb_elem, pd_lines,
                   listdir_rev, fs>>
    /\ UNCHANGED extractVars

NextRevise == NextBatch \/ Revise

SpecRevise == InitRevise /\ [][NextRevise]_vars

----------------------------------------------------------------------------
(* C25: whatever runs were made over the same output directory, the state  *)
(* of a section changing between them or not, the index lists each section *)
(* identifier at most once.                                                *)
Entries(listing) == listing.complete \o listing.near_complete \o listing.incomplete

C25_IndexListsEachIdOnce ==
    IndexPath \in DOMAIN fs =>
      LET entries == Entries(fs[IndexPath][1].listing)
      IN  \A i \in DOMAIN entries : \A j \in DOMAIN entries :
            entries[i].id = entries[j].id => i = j

----------------------------------------------------------------------------
(* The seeds of a section: the folio, the column and the pb element that   *)
(* the drivers look up in the master document before the section.          *)

\* Elements below the root of the master documents of SpecSeed.
MaxMasterNodes == 3

\* source_root: the root element of the parsed master document.
MasterRootElems ==
    { Elem("TEI", "", "", "", <<>>, <<>>) }

\* The sections of the master; an xml:id is unique in a document.
SectionElems ==
    { Elem("div", "", "A", "", <<>>, <<>>),
      Elem("div", "", "B", "", <<>>, <<>>) }

MasterExtensions(d) ==
    { f \in { Append(d, [e EXCEPT !.parent = p]) :
               e \in SectionElems \cup MarkerElems,
               p \in {1} \cup OpenPath(d, Len(d)) } :
        /\ Len(f) - 1 <= MaxMasterNodes
        /\ \A i \in 1..Len(f) : \A j \in 1..Len(f) :
             (f[i].tag = "div" /\ f[j].tag = "div" /\ f[i].xmlid = f[j].xmlid)
               => i = j }

\* The first element of source_root.iter() that is a div with the
\* identifier; 0 stands for None.
RECURSIVE FindDivFrom(_, _, _, _)
FindDivFrom(x, nodes, j, div_id) ==
    IF j > Len(nodes) THEN 0
    ELSE IF x[nodes[j]].tag = "div" /\ x[nodes[j]].xmlid = div_id
         THEN nodes[j]
         ELSE FindDivFrom(x, nodes, j + 1, div_id)

FindDivInSource(x, div_id) == FindDivFrom(x, Iter(x, 1), 1, div_id)

\* for prev_node in reversed(all_nodes[:div_idx]), from position j down,
\* with the folio and the column found so far.
RECURSIVE ScanBackFolioCol(_, _, _, _, _)
ScanBackFolioCol(x, nodes, j, folio, col) ==
    IF j = 0 \/ (folio # "" /\ col # "") THEN <<folio, col>>
    ELSE LET e == x[nodes[j]]
             f == IF e.tag = "pb" /\ folio = ""
                  THEN Or3(e.n, e.xmlid, "") ELSE folio
             c == IF col # "" THEN col
                  ELSE IF e.tag = "cb" THEN Or3(e.n, e.xmlid, "")
                  ELSE IF e.tag = "milestone" /\ e.unit = "column"
                       THEN Or3(e.n, e.xmlid, "")
                  ELSE col
         IN  ScanBackFolioCol(x, nodes, j - 1, f, c)

\* div_id is the identifier the regular expression finds in the section's
\* XML; "" stands for no match.
get_folio_and_col_at_div(x, div_id) ==
    LET div_elem_in_source == FindDivInSource(x, div_id)
        all_nodes == Iter(x, 1)
        div_idx == Index(all_nodes, div_elem_in_source)
    IN  IF div_id = "" \/ div_elem_in_source = 0 \/ div_idx = 0
        THEN <<"", "">>
        ELSE ScanBackFolioCol(x, all_nodes, div_idx - 1, "", "")

RECURSIVE ScanBackPb(_, _, _)
ScanBackPb(x, nodes, j) ==
    IF j = 0 THEN 0
    ELSE IF x[nodes[j]].tag = "pb" THEN nodes[j]
         ELSE ScanBackPb(x, nodes, j - 1)

\* 0 stands for None
get_preceding_pb_element(x, div_id) ==
    LET div_elem_in_source == FindDivInSource(x, div_id)
        all_nodes == Iter(x, 1)
        div_idx == Index(all_nodes, div_elem_in_source)
    IN  IF div_id = "" \/ div_elem_in_source = 0 \/ div_idx = 0
        THEN 0
        ELSE ScanBackPb(x, all_nodes, div_idx - 1)

\* xml holds the master document, div_elem the section at hand.
InitSeed ==
    /\ xml \in { <<r>> : r \in MasterRootElems }
    /\ initial_folio = ""
    /\ initial_col = ""
    /\ pc = "master"
    /\ div_elem = 0
    /\ doc_nodes = <<>>
    /\ parent_map = NoMap
    /\ todo = <<>>
    /\ line_counter = 0
    /\ ancestor_group_map = NoMap
    /\ next_group_id = 0
    /\ lines = <<>>
    /\ BatchIdle

\* The master document, one element after the other in document order.
ElementOfMaster ==
    /\ pc = "master"
    /\ xml' \in MasterExtensions(xml)
    /\ UNCHANGED <<initial_folio, initial_col, pc, div_elem, doc_nodes,
                   parent_map, todo, line_counter, ancestor_group_map,
                   next_group_id, lines>>
    /\ UNCHANGED batchVars

\* The two lookups the driver makes for one section of the master.
Seed ==
    /\ pc = "master"
    /\ \E d \in { i \in 2..Len(xml) : xml[i].tag = "div" } :
         LET seed == get_folio_and_col_at_div(xml, xml[d].xmlid)
         IN  /\ div_elem' = d
             /\ initial_folio' = seed[1]
             /\ initial_col' = seed[2]
             /\ preceding_pb_elem' =
                  get_preceding_pb_element(xml, xml[d].xmlid)
    /\ pc' = "seeded"
    /\ UNCHANGED <<xml, doc_nodes, parent_map, todo, line_counter,
                   ancestor_group_map, next_group_id, lines>>
    /\ UNCHANGED <<csv_file, master, xslt_fail, pd_lines, listdir_rev, fs, bpc,
                   status, metadata_dict, divs, position, written, runs,
                   fs_first>>

NextSeed == ElementOfMaster \/ Seed

SpecSeed == InitSeed /\ [][NextSeed]_vars

----------------------------------------------------------------------------
(* C23: for every section of the master, the seed folio is the effective   *)
(* value (n, else identifier, else empty) of the pb returned by            *)
(* get_preceding_pb_element, both being the nearest pb before the section  *)
(* in document order; the seed folio is empty when no pb precedes it.      *)
PbBeforeSection == { j \in 1..(div_elem - 1) : xml[j].tag = "pb" }

C23_SeedFolioIsNearestPb ==
    pc = "seeded" =>
      IF PbBeforeSection = {}
      THEN initial_folio = "" /\ preceding_pb_elem = 0
      ELSE /\ preceding_pb_elem = Max(PbBeforeSection)
           /\ initial_folio = EffectiveValue(xml[preceding_pb_elem])

----------------------------------------------------------------------------
(* extract_lines_from_xml of process_div.py, the module of the             *)
(* single-section driver, run over the fragment and the seeds that the     *)
(* extractor of helpers.py was given.                                      *)

\* Elements below the root in the fragments of SpecPair.
MaxPairNodes == 3

\* U+2019, the typographic apostrophe, as one character.
RightQuote == "\\u2019"

PairLineElems ==
    { Elem("l", "", "l1", "", <<>>, <<"F", "o", "o">>),
      Elem("l", "", "", "", <<>>, <<"o", " ", "'", " ", "e">>) }

SpeakerChildElems ==
    { Elem("speaker", "", "", "", <<>>, <<"K", " ">>) }

\* A speaker element is a child of the sp it names.
PairExtensions(d) ==
    { f \in { Append(d, [e EXCEPT !.parent = p]) :
               e \in ContainerElems \cup PairLineElems \cup MarkerElems
                       \cup SpeakerChildElems,
               p \in OpenPath(d, Len(d)) } :
        /\ Len(f) - 1 <= MaxPairNodes
        /\ f[Len(f)].tag = "speaker" => f[f[Len(f)].parent].tag = "sp" }

\* "".join(e.itertext())
RECURSIVE PdIterText(_, _)
RECURSIVE PdIterTextOfChildren(_, _)
PdIterTextOfChildren(x, cs) ==
    IF cs = <<>> THEN <<>>
    ELSE PdIterText(x, Head(cs)) \o x[Head(cs)].tail
           \o PdIterTextOfChildren(x, Tail(cs))

PdIterText(x, i) == x[i].text \o PdIterTextOfChildren(x, Children(x, i))

\* The whitespace that a match of \s*q\s* takes in: what lies next to an
\* occurrence of q with nothing but whitespace in between.
PdBesideQuote(t, i, q) ==
    /\ t[i] \in Whitespace
    /\ \E j \in DOMAIN t :
         /\ t[j] = q
         /\ \A m \in DOMAIN t :
              (i < m /\ m < j) \/ (j < m /\ m < i) => t[m] \in Whitespace

RECURSIVE PdCloseUpFrom(_, _, _)
PdCloseUpFrom(t, i, q) ==
    IF i > Len(t) THEN <<>>
    ELSE (IF PdBesideQuote(t, i, q) THEN <<>> ELSE <<t[i]>>)
           \o PdCloseUpFrom(t, i + 1, q)

\* re.sub(r"\s*q\s*", q, t)
PdCloseUp(t, q) == PdCloseUpFrom(t, 1, q)

PdText(x, l) ==
    PdCloseUp(PdCloseUp(Strip(CollapseSpace(PdIterText(x, l))), RightQuote),
              "'")

\* find_group_for_node of process_div.py: 0 for None
RECURSIVE PdFindGroup(_, _, _)
PdFindGroup(x, pm, node) ==
    IF node \notin DOMAIN pm THEN 0
    ELSE IF x[pm[node]].tag \in {"lg", "p", "sp"} THEN pm[node]
         ELSE PdFindGroup(x, pm, pm[node])

\* The positions of doc_nodes[:idx]; none when index raises ValueError.
PdBefore(nodes, l) == 1..(Index(nodes, l) - 1)

\* The element at which a scan of reversed(doc_nodes[:idx]) breaks: the
\* last one before the line among those the test of the scan accepts.
PdNearest(nodes, hits) == nodes[Max(hits)]

PdFolioUnseeded(x, nodes, l, seed) ==
    LET hits == { j \in PdBefore(nodes, l) : x[nodes[j]].tag = "pb" }
    IN  IF hits = {} THEN ""
        ELSE Or3(x[PdNearest(nodes, hits)].n,
                 x[PdNearest(nodes, hits)].xmlid, seed)

PdFolio(x, nodes, l, seed) ==
    LET hits == { j \in PdBefore(nodes, l) : x[nodes[j]].tag = "pb" }
    IN  IF hits = {} THEN seed
        ELSE Or3(x[PdNearest(nodes, hits)].n,
                 x[PdNearest(nodes, hits)].xmlid, seed)

PdCol(x, nodes, l, seed) ==
    LET hits == { j \in PdBefore(nodes, l) :
                    \/ x[nodes[j]].tag = "cb"
                    \/ x[nodes[j]].tag = "milestone"
                         /\ x[nodes[j]].unit = "column" }
    IN  IF hits = {} THEN seed
        ELSE Or3(x[PdNearest(nodes, hits)].n,
                 x[PdNearest(nodes, hits)].xmlid, seed)

\* prev.find('tei:speaker'): the first child that is a speaker, 0 for None
PdSpeakerChild(x, sp) ==
    LET cs == { c \in Range(Children(x, sp)) : x[c].tag = "speaker" }
    IN  IF cs = {} THEN 0 ELSE Min(cs)

PdSpeaker(x, nodes, l) ==
    LET hits == { j \in PdBefore(nodes, l) : x[nodes[j]].tag = "sp" }
        speaker_elem == IF hits = {} THEN 0
                        ELSE PdSpeakerChild(x, PdNearest(nodes, hits))
    IN  IF speaker_elem = 0 THEN <<>>
        ELSE Strip(PdIterText(x, speaker_elem))

\* The for loop over root.findall(".//tei:l"), st being the counters, the
\* group map and the records before the iteration.
RECURSIVE PdLoop(_, _, _, _, _, _, _)
PdLoop(x, nodes, pm, seed_folio, seed_col, rest, st) ==
    IF rest = <<>> THEN st.lines
    ELSE LET l == Head(rest)
             ancestor == PdFindGroup(x, pm, l)
             fresh == ancestor # 0
                        /\ ancestor \notin DOMAIN st.ancestor_group_map
             new_next == IF fresh THEN st.next_group_id + 1
                         ELSE st.next_group_id
             new_map == IF fresh
                        THEN st.ancestor_group_map @@ (ancestor :> new_next)
                        ELSE st.ancestor_group_map
             lg_num == IF ancestor # 0 THEN new_map[ancestor] ELSE 0
             record == [line_no |-> st.line_counter + 1,
                        text |-> PdText(x, l),
                        lg |-> IF lg_num > 0 THEN Str(lg_num) ELSE "",
                        l_id |-> Or3(x[l].xmlid, x[l].id, ""),
                        folio |-> PdFolio(x, nodes, l, seed_folio),
                        col |-> PdCol(x, nodes, l, seed_col),
                        speaker |-> PdSpeaker(x, nodes, l)]
         IN  PdLoop(x, nodes, pm, seed_folio, seed_col, Tail(rest),
                    [line_counter |-> st.line_counter + 1,
                     next_group_id |-> new_next,
                     ancestor_group_map |-> new_map,
                     lines |-> Append(st.lines, record)])

PdExtractLinesFromXml(x, seed_folio, seed_col) ==
    LET pd_div_elem == Find(x, "div")
        pd_doc_nodes == IF pd_div_elem = 0 THEN Iter(x, 1)
                        ELSE Iter(x, pd_div_elem)
        pd_parent_map == ParentMap(x, pd_doc_nodes)
    IN  PdLoop(x, pd_doc_nodes, pd_parent_map, seed_folio, seed_col,
               FindAll(x, "l"),
               [line_counter |-> 0, next_group_id |-> 0,
                ancestor_group_map |-> NoMap, lines |-> <<>>])

\* The fragment handed to both extractors.
ElementOfPair ==
    /\ pc = "input"
    /\ xml' \in PairExtensions(xml)
    /\ UNCHANGED <<initial_folio, initial_col, pc, div_elem, doc_nodes,
                   parent_map, todo, line_counter, ancestor_group_map,
                   next_group_id, lines>>
    /\ UNCHANGED batchVars

\* The call of the extractor of process_div.py.
PdExtract ==
    /\ pc = "done"
    /\ pd_lines' = PdExtractLinesFromXml(xml, initial_folio, initial_col)
    /\ pc' = "both"
    /\ UNCHANGED <<xml, initial_folio, initial_col, div_elem, doc_nodes,
                   parent_map, todo, line_counter, ancestor_group_map,
                   next_group_id, lines>>
    /\ UNCHANGED <<csv_file, master, xslt_fail, preceding_pb_elem,
                   listdir_rev, fs, bpc, status, metadata_dict, divs,
                   position, written, runs, fs_first>>

NextPair == ElementOfPair \/ Begin \/ ExtractLine \/ PdExtract

SpecPair == Init /\ [][NextPair]_vars

----------------------------------------------------------------------------
(* C22: for every fragment and every pair of seeds the two extractors      *)
(* return lists of the same length whose records agree on line_no, lg,     *)
(* l_id, folio and col; text and speaker are where they may differ.        *)
C22_ExtractorsAgree ==
    pc = "both" =>
      /\ Len(pd_lines) = Len(lines)
      /\ \A k \in DOMAIN pd_lines :
           /\ pd_lines[k].line_no = lines[k].line_no
           /\ pd_lines[k].lg = lines[k].lg
           /\ pd_lines[k].l_id = lines[k].l_id
           /\ pd_lines[k].folio = lines[k].folio
           /\ pd_lines[k].col = lines[k].col

C22_Witness ==
    /\ pc = "both"
    /\ Len(lines) >= 2
    /\ \E k \in DOMAIN lines :
         /\ pd_lines[k].text # lines[k].text
         /\ pd_lines[k].speaker # lines[k].speaker
         /\ lines[k].lg # ""
         /\ lines[k].folio # ""

====
